---- MODULE Spec2Model ----
(***************************************************************************)
(* A model of sim.py, the E20 simulator: the loader, the bit-field         *)
(* helpers, the three executor routines, simulation() and the run loop of  *)
(* main().                                                                 *)
(*                                                                         *)
(* A machine value is a record [pc, regs, memory], the triple every        *)
(* routine of sim.py returns.  regs is a function on 0..7.  memory stands  *)
(* for the list of 8192 words: it is the function from the addresses of    *)
(* the non-zero words to those words, read with Word and written with      *)
(* Store, so that two memories are equal exactly when the two lists are.   *)
(***************************************************************************)
EXTENDS Integers, FiniteSets, Sequences, TLC

VARIABLES
    old_pc,     \* main: old_pc, the program counter of the next fetch
    regs,       \* main: regs, the register file
    memory,     \* main: memory, 8192 words (the non-zero ones, see Word)
    status,     \* main's position: "loading" in load_machine_code, "failed" when
                \* it raised, "running" in the while loop, "halted" after break,
                \* "crashed" if simulation() returned nothing to unpack
    file,       \* main: the machine code file, [len, lines] (see LineAt)
    lineno,     \* load_machine_code: the number of lines the for loop has taken
    expectedaddr, \* load_machine_code: expectedaddr
    error,      \* the ValueError load_machine_code raised, "none" if it did not
    steps,      \* number of simulation() calls made so far (bounded by MaxSteps)
    image,      \* history: the memory as it was when the run loop started
    prev,       \* history: [pc, regs, instr] of the last simulation() call
    link,       \* history: the return address of the last JAL while register 7
                \* has not been written by another instruction, else NoLink
    stores      \* history: for each address an SW has written, the value of the
                \* last SW there

vars == <<old_pc, regs, memory, status, file, lineno, expectedaddr, error,
          steps, image, prev, link, stores>>

----------------------------------------------------------------------------
(* Program constants. *)

NUM_REGS == 8
MEM_SIZE == 2^13
REG_SIZE == 2^16

(* Bound of the model: the run loop is followed for at most MaxSteps steps. *)
MaxSteps == 4

----------------------------------------------------------------------------
(* Python's integer operators on the values sim.py applies them to.  An    *)
(* int is an unbounded two's-complement number: x >> 1 is floor division   *)
(* by 2 and x & 1 is x mod 2, also for a negative x.                       *)

RECURSIVE BitAnd(_, _)
\* x & y, for any integer x and a mask y >= 0
BitAnd(x, y) ==
    IF y = 0 THEN 0
    ELSE (x % 2) * (y % 2) + 2 * BitAnd(x \div 2, y \div 2)

RECURSIVE BitOr(_, _)
\* x | y, for x >= 0 and y >= 0
BitOr(x, y) ==
    IF x = 0 THEN y
    ELSE IF y = 0 THEN x
    ELSE (IF x % 2 = 1 \/ y % 2 = 1 THEN 1 ELSE 0) + 2 * BitOr(x \div 2, y \div 2)

RECURSIVE BitXor(_, _)
\* x ^ y, for x >= 0 and y >= 0
BitXor(x, y) ==
    IF x = 0 THEN y
    ELSE IF y = 0 THEN x
    ELSE (IF x % 2 = y % 2 THEN 0 ELSE 1) + 2 * BitXor(x \div 2, y \div 2)

\* x >> k
ShiftR(x, k) == x \div (2^k)

\* x << k
ShiftL(x, k) == x * (2^k)

----------------------------------------------------------------------------
(* The helpers of sim.py. *)

\* a program counter of 17 bits
valid_pc_17(pc) == pc % 131072

\* valid_pc without the reduction
valid_pc_NoWrap(pc) == pc

\* valid_pc: pc % 65536
valid_pc(pc) == pc % 65536

\* keep_16bits with a 15-bit mask
keep_16bits_15(num) ==
    LET bitmask == ShiftL(1, 15) - 1
    IN  BitAnd(num, bitmask)

\* keep_16bits: num & ((1 << 16) - 1)
keep_16bits(num) ==
    LET bitmask == ShiftL(1, 16) - 1
    IN  BitAnd(num, bitmask)

\* an extension to a signed number instead of a 16-bit word
sign_extend_7_Signed(num) == IF num >= 64 THEN num - 128 ELSE num

\* sign_extend_7 testing bit 7 instead of bit 6 for the sign
sign_extend_7_Bit7(num) ==
    LET left_most_bit == ShiftR(BitAnd(num, 128), 7)
    IN  IF left_most_bit = 1 THEN BitOr(65408, num) ELSE num

\* sign_extend_7: the 7-bit pattern as a 16-bit word
sign_extend_7(num) ==
    LET left_most_bit == ShiftR(BitAnd(num, 64), 6)
    IN  IF left_most_bit = 1 THEN BitOr(65408, num) ELSE num

\* sign_number_converter: the pattern as a signed integer
sign_number_converter(num, bits) ==
    LET left_most_bit == ShiftR(BitAnd(num, 64), 6)
    IN  IF left_most_bit = 1
        THEN LET bitmask == ShiftL(1, bits) - 1
             IN  -(BitXor(num, bitmask) + 1)
        ELSE num

\* memory[a] of the list, for a list index a in 0..MEM_SIZE-1
Word(m, a) == IF a \in DOMAIN m THEN m[a] ELSE 0

\* an assignment that also clears the element after a
Store_Spill(m, a, v) ==
    IF v = 0
    THEN [x \in DOMAIN m \ {a, a + 1} |-> m[x]]
    ELSE [x \in (DOMAIN m \cup {a}) \ {a + 1} |-> IF x = a THEN v ELSE m[x]]

\* the list after memory[a] = v, for a list index a in 0..MEM_SIZE-1
Store(m, a, v) ==
    IF v = 0
    THEN [x \in DOMAIN m \ {a} |-> m[x]]
    ELSE [x \in DOMAIN m \cup {a} |-> IF x = a THEN v ELSE m[x]]

\* whether a Python list of MEM_SIZE elements accepts the index a
InRange(a) == a \in (-MEM_SIZE)..(MEM_SIZE - 1)

\* the element a Python list index names: a negative index counts from the end
ListIndex(a) == IF a < 0 THEN a + MEM_SIZE ELSE a

\* the triple (pc, regs, memory) a routine returns
Machine(pc, r, m) == [pc |-> pc, regs |-> r, memory |-> m]

\* what a Python function returns when it falls off its end
None == [pc |-> -1, regs |-> <<>>, memory |-> <<>>]

\* a list index out of range: the exception leaves main
IndexError == [pc |-> -2, regs |-> <<>>, memory |-> <<>>]

----------------------------------------------------------------------------
(* The loader.  A line of the file is the outcome of the regular           *)
(* expression of load_machine_code on it: whether it matches and, if so,   *)
(* the two groups of digits it captures, each a sequence of digits 0..9.   *)
(* A file is [len, lines]: len lines, numbered from 0, of which lines      *)
(* gives those that differ from the line "ram[i] = 16'b0000000000000000;"  *)
(* of their number i.                                                      *)

\* a line the regular expression does not match
NoMatch == [match |-> FALSE, addr |-> <<>>, instr |-> <<>>]

\* a line "ram[<addr>] = 16'b<instr>;" with the digits captured
RamLine(addr, instr) == [match |-> TRUE, addr |-> addr, instr |-> instr]

RECURSIVE DecDigits(_)
\* the decimal digits of n >= 0
DecDigits(n) ==
    IF n < 10 THEN <<n>> ELSE Append(DecDigits(n \div 10), n % 10)

RECURSIVE Bits(_, _)
\* the k low binary digits of w >= 0, most significant first
Bits(w, k) ==
    IF k = 0 THEN <<>> ELSE Append(Bits(w \div 2, k - 1), w % 2)

\* line i of file f
LineAt(f, i) ==
    IF i \in DOMAIN f.lines THEN f.lines[i]
    ELSE RamLine(DecDigits(i), Bits(0, 16))

\* int() raising ValueError: a digit the base does not have
ValueError == -1

RECURSIVE DigitsValue(_, _, _)
\* the value in the base of the first n digits of s
DigitsValue(s, base, n) ==
    IF n = 0 THEN 0 ELSE DigitsValue(s, base, n - 1) * base + s[n]

\* int(s, base) on a non-empty string of digits
IntOf(s, base) ==
    IF \E i \in 1..Len(s) : s[i] >= base
    THEN ValueError
    ELSE DigitsValue(s, base, Len(s))

\* what one iteration of the for loop yields
Loaded(err, expected, m) == [error |-> err, expectedaddr |-> expected, memory |-> m]

\* a loader that only refuses addresses already passed
OutOfSequence_Below(addr, expected) == addr < expected

\* load_machine_code, line 32: the address is not the expected one
OutOfSequence(addr, expected) == addr # expected

\* a loader that writes each word one cell too far
Accept_Shifted(addr, instr, expected, m) ==
    Loaded("none", expected + 1, Store(m, addr + 1, instr))

\* load_machine_code, lines 36-37: the line is accepted
Accept(addr, instr, expected, m) ==
    Loaded("none", expected + 1, Store(m, addr, instr))

\* load_machine_code, lines 26-37: one iteration of the for loop on a line
LoadStep(line, expected, m) ==
    IF ~line.match
    THEN Loaded("parse", expected, m)
    ELSE LET addr  == IntOf(line.addr, 10)
             instr == IntOf(line.instr, 2)
         IN  IF instr = ValueError
             THEN Loaded("literal", expected, m)
             ELSE IF OutOfSequence(addr, expected)
             THEN Loaded("sequence", expected, m)
             ELSE IF addr >= MEM_SIZE
             THEN Loaded("capacity", expected, m)
             ELSE Accept(addr, instr, expected, m)

----------------------------------------------------------------------------
(* The executor routines. *)

\* a guard that also discards sw and jeq on $0
ZeroGuard2R_All(opcode, regDst) == regDst = 0

\* ZeroGuard2R with addi left out of the guarded opcodes
ZeroGuard2R_NoAddi(opcode, regDst) ==
    regDst = 0 /\ (opcode = 7 \/ opcode = 4)

\* instruction_2R, lines 114-115: the opcodes whose write to $0 is skipped
ZeroGuard2R(opcode, regDst) ==
    regDst = 0 /\ (opcode = 7 \/ opcode = 4 \/ opcode = 1)

\* an address that is not reduced to the memory size
EffectiveAddress_NoWrap(r, regSrc, imm) == r[regSrc] + sign_number_converter(imm, 7)

\* EffectiveAddress reduced modulo 8191 instead of masked with 8191
EffectiveAddress_Mod8191(r, regSrc, imm) ==
    (r[regSrc] + sign_number_converter(imm, 7)) % 8191

\* instruction_2R, lines 125 and 129: the memory index of lw and sw
EffectiveAddress(r, regSrc, imm) ==
    BitAnd(r[regSrc] + sign_number_converter(imm, 7), 8191)

\* an executor that takes every opcode it does not know for slt
Execute3R_SltRest(regSrcA, regSrcB, regDst, opcode, pc, r, m) ==
        IF opcode = 8                                            \* jr
        THEN Machine(valid_pc(r[regSrcA]), r, m)
        ELSE IF regDst = 0                                       \* write to $0
        THEN Machine(valid_pc(pc + 1), r, m)
        ELSE IF opcode = 0
        THEN Machine(valid_pc(pc + 1),
                     [r EXCEPT ![regDst] = keep_16bits(r[regSrcA] + r[regSrcB])], m)
        ELSE IF opcode = 1
        THEN Machine(valid_pc(pc + 1),
                     [r EXCEPT ![regDst] = keep_16bits(r[regSrcA] - r[regSrcB])], m)
        ELSE IF opcode = 2
        THEN Machine(valid_pc(pc + 1),
                     [r EXCEPT ![regDst] = keep_16bits(BitOr(r[regSrcA], r[regSrcB]))], m)
        ELSE IF opcode = 3
        THEN Machine(valid_pc(pc + 1),
                     [r EXCEPT ![regDst] = keep_16bits(BitAnd(r[regSrcA], r[regSrcB]))], m)
        ELSE Machine(valid_pc(pc + 1),
                     [r EXCEPT ![regDst] = IF r[regSrcA] < r[regSrcB] THEN 1 ELSE 0], m)

\* instruction_3R, lines 82-103, on the decoded fields
Execute3R(regSrcA, regSrcB, regDst, opcode, pc, r, m) ==
        IF opcode = 8                                            \* jr
        THEN Machine(valid_pc(r[regSrcA]), r, m)
        ELSE IF regDst = 0                                       \* write to $0
        THEN Machine(valid_pc(pc + 1), r, m)
        ELSE IF opcode = 0
        THEN Machine(valid_pc(pc + 1),
                     [r EXCEPT ![regDst] = keep_16bits(r[regSrcA] + r[regSrcB])], m)
        ELSE IF opcode = 1
        THEN Machine(valid_pc(pc + 1),
                     [r EXCEPT ![regDst] = keep_16bits(r[regSrcA] - r[regSrcB])], m)
        ELSE IF opcode = 2
        THEN Machine(valid_pc(pc + 1),
                     [r EXCEPT ![regDst] = keep_16bits(BitOr(r[regSrcA], r[regSrcB]))], m)
        ELSE IF opcode = 3
        THEN Machine(valid_pc(pc + 1),
                     [r EXCEPT ![regDst] = keep_16bits(BitAnd(r[regSrcA], r[regSrcB]))], m)
        ELSE IF opcode = 4
        THEN Machine(valid_pc(pc + 1),
                     [r EXCEPT ![regDst] = IF r[regSrcA] < r[regSrcB] THEN 1 ELSE 0], m)
        ELSE Machine(valid_pc(pc + 1), r, m)

\* instructions with three register arguments: lines 77-80, the decoding
instruction_3R(instruction, pc, r, m) ==
    Execute3R(ShiftR(BitAnd(instruction, 7168), 10),
              ShiftR(BitAnd(instruction, 896), 7),
              ShiftR(BitAnd(instruction, 112), 4),
              BitAnd(instruction, 15),
              pc, r, m)

\* instruction_2R, lines 113-140, on the decoded fields
Execute2R(opcode, regSrc, regDst, imm, pc, r, m) ==
        IF ZeroGuard2R(opcode, regDst)
        THEN Machine(valid_pc(pc + 1), r, m)
        ELSE IF opcode = 7                                       \* slti
        THEN Machine(valid_pc(pc + 1),
                     [r EXCEPT ![regDst] =
                         IF r[regSrc] < sign_extend_7(imm) THEN 1 ELSE 0], m)
        ELSE IF opcode = 4                                       \* lw
        THEN LET val == EffectiveAddress(r, regSrc, imm)
             IN  IF ~InRange(val) THEN IndexError
                 ELSE Machine(valid_pc(pc + 1),
                              [r EXCEPT ![regDst] =
                                  keep_16bits(Word(m, ListIndex(val)))], m)
        ELSE IF opcode = 5                                       \* sw
        THEN LET val == EffectiveAddress(r, regSrc, imm)
             IN  IF ~InRange(val) THEN IndexError
                 ELSE Machine(valid_pc(pc + 1), r,
                              Store(m, ListIndex(val), r[regDst]))
        ELSE IF opcode = 6                                       \* jeq
        THEN IF r[regSrc] = r[regDst]
             THEN Machine(valid_pc(pc + 1 + sign_number_converter(imm, 7)), r, m)
             ELSE Machine(valid_pc(pc + 1), r, m)
        ELSE IF opcode = 1                                       \* addi
        THEN Machine(valid_pc(pc + 1),
                     [r EXCEPT ![regDst] =
                         keep_16bits(r[regSrc] + sign_number_converter(imm, 7))], m)
        ELSE None

\* instructions with two register arguments: lines 108-111, the decoding
instruction_2R(instruction, pc, r, m) ==
    Execute2R(ShiftR(BitAnd(instruction, 57344), 13),
              ShiftR(BitAnd(instruction, 7168), 10),
              ShiftR(BitAnd(instruction, 896), 7),
              BitAnd(instruction, 127),
              pc, r, m)

\* Execute0R linking the JAL's own address instead of the one after it
Execute0R_LinkPc(opcode, imm, pc, r, m) ==
        IF opcode = 2
        THEN Machine(valid_pc(imm), r, m)
        ELSE IF opcode = 3
        THEN Machine(valid_pc(imm), [r EXCEPT ![7] = keep_16bits(pc)], m)
        ELSE Machine(valid_pc(pc), r, m)

\* instruction_0R, lines 147-152, on the decoded fields
Execute0R(opcode, imm, pc, r, m) ==
        IF opcode = 2                                            \* j
        THEN Machine(valid_pc(imm), r, m)
        ELSE IF opcode = 3                                       \* jal
        THEN Machine(valid_pc(imm), [r EXCEPT ![7] = keep_16bits(pc + 1)], m)
        ELSE Machine(valid_pc(pc), r, m)

\* instructions with no register arguments: lines 145-146, the decoding
instruction_0R(instruction, pc, r, m) ==
    Execute0R(ShiftR(BitAnd(instruction, 57344), 13),
              BitAnd(instruction, 8191),
              pc, r, m)

\* a fetch from the program as it was loaded
Fetch_Loaded(pc, m) == Word(image, pc % 8192)

\* simulation, line 63: the fetch
Fetch(pc, m) == Word(m, pc % 8192)

\* simulation, lines 65, 68: the format selector, bits 15..13 of the word
Selector(instruction) == ShiftR(BitAnd(instruction, 57344), 13)

\* a dispatch that sends only selector 010 to instruction_0R
Dispatch_NoJal(sel, instruction, pc, r, m) ==
    IF sel = 0
    THEN instruction_3R(instruction, pc, r, m)
    ELSE IF sel = 2
    THEN instruction_0R(instruction, pc, r, m)
    ELSE instruction_2R(instruction, pc, r, m)

\* simulation, lines 65-72: the dispatch, sel being the format selector
Dispatch(sel, instruction, pc, r, m) ==
    IF sel = 0
    THEN instruction_3R(instruction, pc, r, m)
    ELSE IF sel = 2 \/ sel = 3
    THEN instruction_0R(instruction, pc, r, m)
    ELSE instruction_2R(instruction, pc, r, m)

\* simulation: fetch, then dispatch on the format selector
simulation(pc, r, m) ==
    Dispatch(Selector(Fetch(pc, m)), Fetch(pc, m), pc, r, m)

\* HaltCheck testing for selector 011 instead of 010
HaltCheck_Selector3(pc, new) ==
    new.pc = pc /\ ShiftR(Word(new.memory, pc % 8191), 13) = 3

\* main, lines 206-207: the halt test made after a step from pc produced new
HaltCheck(pc, new) ==
    new.pc = pc /\ ShiftR(Word(new.memory, pc % 8191), 13) = 2

----------------------------------------------------------------------------
(* Instruction words, by the layout the routines decode. *)

\* three-register format: bits 12-10, 9-7, 6-4, 3-0 under selector 000
Enc3R(regSrcA, regSrcB, regDst, opcode) ==
    regSrcA * 1024 + regSrcB * 128 + regDst * 16 + opcode

\* two-register format: selector (the opcode), bits 12-10, 9-7, 6-0
Enc2R(opcode, regSrc, regDst, imm) ==
    opcode * 8192 + regSrc * 1024 + regDst * 128 + imm

\* zero-register format: selector (the opcode), bits 12-0
Enc0R(opcode, imm) == opcode * 8192 + imm

\* the fields of a word, by arithmetic
FieldSel(w)  == (w \div 8192) % 8
FieldA(w)    == (w \div 1024) % 8
FieldB(w)    == (w \div 128) % 8
FieldD3(w)   == (w \div 16) % 8
FieldOp3(w)  == w % 16
FieldImm7(w) == w % 128
FieldImm13(w) == w % 8192

\* the signed value of a 7-bit immediate: 64..127 count as -64..-1
Signed7(x) == IF x >= 64 THEN x - 128 ELSE x

ADD(a, b, d)   == Enc3R(a, b, d, 0)
SUB(a, b, d)   == Enc3R(a, b, d, 1)
OR(a, b, d)    == Enc3R(a, b, d, 2)
AND(a, b, d)   == Enc3R(a, b, d, 3)
SLT(a, b, d)   == Enc3R(a, b, d, 4)
JR(a)          == Enc3R(a, 0, 0, 8)
ADDI(s, d, i)  == Enc2R(1, s, d, i)
LW(s, d, i)    == Enc2R(4, s, d, i)
SW(s, d, i)    == Enc2R(5, s, d, i)
JEQ(s, d, i)   == Enc2R(6, s, d, i)
SLTI(s, d, i)  == Enc2R(7, s, d, i)
J(i)           == Enc0R(2, i)
JAL(i)         == Enc0R(3, i)

----------------------------------------------------------------------------
(* The memory images the run is started on.  A machine-code file lists     *)
(* addresses 0, 1, ... in sequence, so any image of 8192 words can be      *)
(* loaded; cells is the function from the addresses of interest to their   *)
(* words and every other word is 0.                                        *)

Image(cells) ==
    [a \in {x \in DOMAIN cells : cells[x] # 0} |-> cells[a]]

\* control-flow programs: words at addresses 0, 1, 2 and 8191
Ctl0   == {ADDI(0, 1, 5), J(8191), JAL(8191), JAL(2), J(0), JAL(0), JR(0), JAL(1)}
Ctl1   == {0, J(1), JAL(1), JEQ(0, 0, 127), JR(7), ADDI(0, 7, 9)}
Ctl2   == {0, JR(7), J(2), JAL(2)}
CtlTop == {0, J(8191), JAL(8191), JEQ(0, 0, 127), JR(7)}

ControlImages ==
    {Image(0 :> c0 @@ 1 :> c1 @@ 2 :> c2 @@ 8191 :> t) :
        <<c0, c1, c2, t>> \in Ctl0 \X Ctl1 \X Ctl2 \X CtlTop}

\* data words loaded into $1 and $2 before the instruction under test
DataVals == {0, 1, 2, 8190, 32768, 65535}

\* the instructions under test, run at address 2 with $1 and $2 loaded
Ops3R ==
    {Enc3R(f[1], f[2], f[3], op) :
        f \in {<<1, 2, 3>>, <<1, 2, 0>>, <<2, 1, 1>>, <<1, 1, 7>>},
        op \in {0, 1, 2, 3, 4, 5, 8, 15}}
Ops2R ==
    {Enc2R(op, f[1], f[2], i) :
        op \in {1, 4, 5, 6, 7},
        f \in {<<1, 3>>, <<1, 0>>, <<2, 1>>, <<0, 0>>, <<0, 1>>},
        i \in {0, 3, 63, 64, 127}}
Ops0R == {J(2), J(5), JAL(2), JAL(5)}

\* a data word kept at address 8191
Marker == 4660

OperateImages ==
    {Image(0 :> LW(0, 1, 3) @@ 1 :> LW(0, 2, 4) @@ 2 :> x @@ 3 :> a @@ 4 :> b
           @@ 8191 :> Marker) :
        <<x, a, b>> \in (Ops3R \cup Ops2R \cup Ops0R) \X DataVals \X DataVals}

\* every three-register word whose opcode the executor does not know, run
\* at address 1 with $1 = 1
Undefined3R ==
    {Enc3R(a, b, d, op) :
        <<a, b, d, op>> \in (0..7) \X (0..7) \X (0..7) \X ({5, 6, 7} \cup (9..15))}
UndefinedImages ==
    {Image(0 :> ADDI(0, 1, 1) @@ 1 :> x) : x \in Undefined3R}

\* every 7-bit immediate, in an addi and in an slti on $1 = a
ImmediateImages ==
    {Image(0 :> LW(0, 1, 2) @@ 1 :> Enc2R(op, 1, 3, i) @@ 2 :> a) :
        <<op, i, a>> \in {1, 7} \X (0..127) \X {0, 64, 65535}}

\* a jump through a register to a PC beyond the memory size: the word at
\* address 8191 is executed at PC 65535 and at PC 16383
HighPCs  == {65535, 16383, 8192}
HighTop  == {0, ADDI(0, 3, 1), J(8191), JAL(8191), JEQ(0, 0, 1), JEQ(0, 0, 127), JR(1)}
HighImages ==
    {Image(0 :> LW(0, 1, 2) @@ 1 :> JR(1) @@ 2 :> p @@ 8191 :> t) :
        <<p, t>> \in HighPCs \X HighTop}

\* a store, an instruction in between and a load, with $1 = a: the store
\* and the load reach address 6, 62, 70 or others through $0 or $1
StoreLoadImages ==
    {Image(0 :> LW(0, 1, 5) @@ 1 :> st @@ 2 :> mid @@ 3 :> ld @@ 5 :> a) :
        <<st, mid, ld, a>> \in
            {SW(0, 1, 6), SW(1, 1, 63), SW(1, 1, 127)}
            \X {0, SW(0, 0, 6), SW(0, 1, 7), SW(0, 0, 62), ADDI(1, 1, 1)}
            \X {LW(0, 3, 6), LW(1, 3, 127), LW(0, 3, 62), LW(1, 3, 63), LW(1, 3, 126), LW(0, 1, 6)}
            \X {0, 7, 8199, 65535}}

\* a program that writes the word a over the instruction c at address 2
\* and then runs into it
SelfModImages ==
    {Image(0 :> LW(0, 1, 3) @@ 1 :> SW(0, 1, 2) @@ 2 :> c @@ 3 :> a) :
        <<c, a>> \in {0, J(2), ADDI(0, 2, 1), SW(0, 0, 3)}
                    \X {0, ADDI(0, 3, 7), J(2), JAL(5), JR(1), SW(1, 1, 1), Enc3R(1, 1, 3, 0)}}

Images ==
    ControlImages \cup OperateImages \cup ImmediateImages \cup HighImages
    \cup UndefinedImages \cup StoreLoadImages \cup SelfModImages

----------------------------------------------------------------------------
(* The machine code files the loader is run on. *)

\* the file of n lines "ram[i] = ..." in sequence that holds the words of cells
SeqFile(n, cells) ==
    [len |-> n,
     lines |-> [i \in {x \in DOMAIN cells : cells[x] # 0} |->
                   RamLine(DecDigits(i), Bits(cells[i], 16))]]

\* the shortest file in sequence that loads the image img
ImageFile(img) ==
    SeqFile(IF DOMAIN img = {} THEN 0
            ELSE 1 + CHOOSE a \in DOMAIN img : \A b \in DOMAIN img : b <= a,
            img)

\* file f with line i replaced
WithLine(f, i, line) ==
    [len |-> f.len,
     lines |-> [k \in DOMAIN f.lines \cup {i} |-> IF k = i THEN line ELSE f.lines[k]]]

\* files in sequence: 0 to 3 lines, the whole memory, and one line too many
GoodFiles ==
    {SeqFile(n, 0 :> ADDI(0, 1, 5) @@ 1 :> J(1)) : n \in 0..3}
    \cup {SeqFile(2, 0 :> a @@ 1 :> b) : a \in {0, JAL(1), 65535}, b \in {J(1), SW(0, 7, 0)}}
    \cup {SeqFile(MEM_SIZE, 0 :> J(8191) @@ 8191 :> J(8191)),
          SeqFile(MEM_SIZE, 0 :> JAL(8191) @@ 4096 :> Marker @@ 8191 :> J(8191))}
LongFiles ==
    {SeqFile(MEM_SIZE + 1, 0 :> J(0)),
     SeqFile(MEM_SIZE + 1, 0 :> J(0) @@ MEM_SIZE :> Marker)}

\* the lines put in place of a line of a file in sequence
OddLines ==
    {NoMatch,
     RamLine(<<0>>, Bits(J(0), 16)),         \* address 0
     RamLine(<<1>>, Bits(J(1), 16)),         \* address 1
     RamLine(<<0, 2>>, Bits(J(2), 16)),      \* address 02
     RamLine(<<3>>, Bits(J(3), 16)),         \* address 3
     RamLine(<<9, 0, 0, 0>>, Bits(J(0), 16)),  \* address 9000
     RamLine(<<1>>, <<0, 1, 2>>),            \* a digit that is not binary
     RamLine(<<2>>, <<1, 0, 1>>),            \* three binary digits
     RamLine(<<1>>, Bits(J(1) + 65536, 17))} \* seventeen binary digits

BaseFile == SeqFile(4, 0 :> ADDI(0, 1, 5) @@ 1 :> J(1) @@ 3 :> Marker)

OddFiles ==
    {WithLine(BaseFile, i, line) : <<i, line>> \in (0..3) \X OddLines}

Files == GoodFiles \cup LongFiles \cup OddFiles

----------------------------------------------------------------------------
(* The run loop of main. *)

NoLink == -1
NoPrev == [pc |-> -1, regs |-> <<>>, instr |-> -1]
NoStores == <<>>

\* the stores history after executing word w under registers r
StoresAfter(w, r) ==
    IF FieldSel(w) = 5
    THEN LET e == (r[FieldA(w)] + (IF FieldImm7(w) >= 64 THEN FieldImm7(w) - 128
                                    ELSE FieldImm7(w))) % 8192
         IN  [a \in DOMAIN stores \cup {e} |-> IF a = e THEN r[FieldB(w)] ELSE stores[a]]
    ELSE stores

\* whether executing word w assigns register 7 other than as a JAL's link
WritesReg7(w) ==
    \/ FieldSel(w) = 0 /\ FieldOp3(w) \in 0..4 /\ FieldD3(w) = 7
    \/ FieldSel(w) \in {1, 4, 7} /\ FieldB(w) = 7

\* main, lines 193-203: pc 0, registers 0, and the memory as loaded from the
\* file in sequence that holds the image; the run loop is about to start
Init ==
    /\ old_pc = 0
    /\ regs = [i \in 0..(NUM_REGS - 1) |-> 0]
    /\ memory \in Images
    /\ image = memory
    /\ status = "running"
    /\ file = ImageFile(memory)
    /\ lineno = file.len
    /\ expectedaddr = file.len
    /\ error = "none"
    /\ steps = 0
    /\ prev = NoPrev
    /\ link = NoLink
    /\ stores = NoStores

\* main, lines 193-197: pc 0, registers 0, memory 0, the file opened
LoadInit ==
    /\ old_pc = 0
    /\ regs = [i \in 0..(NUM_REGS - 1) |-> 0]
    /\ memory = <<>>
    /\ image = <<>>
    /\ status = "loading"
    /\ file \in Files
    /\ lineno = 0
    /\ expectedaddr = 0
    /\ error = "none"
    /\ steps = 0
    /\ prev = NoPrev
    /\ link = NoLink
    /\ stores = NoStores

\* load_machine_code, lines 25-37: the for loop takes the next line
LoadLine ==
    /\ status = "loading"
    /\ lineno < file.len
    /\ \E r \in {LoadStep(LineAt(file, lineno), expectedaddr, memory)} :
          /\ error' = r.error
          /\ expectedaddr' = r.expectedaddr
          /\ memory' = r.memory
          /\ IF r.error = "none"
             THEN status' = "loading" /\ lineno' = lineno + 1
             ELSE status' = "failed" /\ lineno' = lineno
    /\ UNCHANGED <<old_pc, regs, file, steps, image, prev, link, stores>>

\* main, lines 199-203: the file is exhausted, load_machine_code returns
LoadEnd ==
    /\ status = "loading"
    /\ lineno = file.len
    /\ status' = "running"
    /\ image' = memory
    /\ UNCHANGED <<old_pc, regs, memory, file, lineno, expectedaddr, error,
                   steps, prev, link, stores>>

\* main, lines 204-212: one iteration of the while loop
MainLoop ==
    \E new \in {simulation(old_pc, regs, memory)} :
    LET w == Fetch(old_pc, memory)
    IN  /\ steps' = steps + 1
        /\ prev' = [pc |-> old_pc, regs |-> regs, instr |-> w]
        /\ UNCHANGED <<image, file, lineno, expectedaddr, error>>
        /\ IF new \in {None, IndexError}
           THEN /\ status' = "crashed"
                /\ UNCHANGED <<old_pc, regs, memory, link, stores>>
           ELSE /\ regs' = new.regs
                /\ memory' = new.memory
                /\ stores' = StoresAfter(w, regs)
                /\ link' = IF FieldSel(w) = 3 THEN (old_pc + 1) % REG_SIZE
                           ELSE IF WritesReg7(w) THEN NoLink
                           ELSE link
                /\ IF HaltCheck(old_pc, new)
                   THEN status' = "halted" /\ old_pc' = old_pc
                   ELSE status' = "running" /\ old_pc' = new.pc

\* an iteration that executes a three-register instruction
Step3R ==
    /\ status = "running"
    /\ steps < MaxSteps
    /\ Selector(Fetch(old_pc, memory)) = 0
    /\ MainLoop

\* an iteration that executes a J or a JAL
Step0R ==
    /\ status = "running"
    /\ steps < MaxSteps
    /\ Selector(Fetch(old_pc, memory)) \in {2, 3}
    /\ MainLoop

\* an iteration that executes a two-register instruction
Step2R ==
    /\ status = "running"
    /\ steps < MaxSteps
    /\ Selector(Fetch(old_pc, memory)) \in {1, 4, 5, 6, 7}
    /\ MainLoop

Next == Step3R \/ Step0R \/ Step2R

Spec == Init /\ [][Next]_vars

\* main from its start: the load, then the run loop
LoadNext == LoadLine \/ LoadEnd \/ Step3R \/ Step0R \/ Step2R

LoadSpec == LoadInit /\ [][LoadNext]_vars

TypeOK ==
    /\ status \in {"loading", "failed", "running", "halted", "crashed"}
    /\ error \in {"none", "parse", "literal", "sequence", "capacity"}
    /\ steps \in 0..MaxSteps
    /\ lineno \in 0..file.len

----------------------------------------------------------------------------
(* What the properties below say about a step: the word about to be        *)
(* executed, and whether the run loop can take a step.                     *)

\* the word the next iteration executes
Current == Word(memory, old_pc % MEM_SIZE)

\* the run loop is about to execute an instruction
Stepping == status = "running" /\ steps < MaxSteps

\* an instruction has been executed
Acted == prev # NoPrev

----------------------------------------------------------------------------
(* C1: register 0 holds 0 in every state of the run, whatever instructions *)
(* were executed and whatever their destination fields were.               *)
C1_RegisterZero == regs[0] = 0

\* an addi whose destination field is 0 and whose sum is not 0 was executed
C1_Witness ==
    /\ Acted
    /\ FieldSel(prev.instr) = 1
    /\ FieldB(prev.instr) = 0
    /\ (prev.regs[FieldA(prev.instr)] + Signed7(FieldImm7(prev.instr))) % REG_SIZE # 0

(* C2: a step at PC = a in 0..8191 whose word at Memory[a] is J a halts    *)
(* the loop: the PC stays a, and registers and memory are unchanged.       *)
C2_HaltOnSelfJump ==
    [][(/\ Stepping
        /\ old_pc \in 0..(MEM_SIZE - 1)
        /\ FieldSel(Word(memory, old_pc)) = 2
        /\ FieldImm13(Word(memory, old_pc)) = old_pc)
       => (/\ status' = "halted"
           /\ old_pc' = old_pc
           /\ regs' = regs
           /\ memory' = memory)]_vars

(* C3: the loop halts only at a step whose executed word has selector 010  *)
(* and whose next PC equals the current PC; every other step commits the   *)
(* next PC and the loop continues.                                         *)
C3_HaltOnlyOnJ ==
    [][Stepping =>
        /\ status' = "halted" =>
              /\ FieldSel(Current) = 2
              /\ simulation(old_pc, regs, memory).pc = old_pc
        /\ status' # "halted" =>
              /\ status' = "running"
              /\ old_pc' = simulation(old_pc, regs, memory).pc]_vars

(* C4: a step at PC = a in 0..8191 whose word at Memory[a] is JAL a never  *)
(* halts: the loop keeps running at PC = a with register 7 = (a+1) mod     *)
(* 65536, so the same step is taken again.                                 *)
C4_JalSelfJumpRuns ==
    [][(/\ Stepping
        /\ old_pc \in 0..(MEM_SIZE - 1)
        /\ FieldSel(Word(memory, old_pc)) = 3
        /\ FieldImm13(Word(memory, old_pc)) = old_pc)
       => (/\ status' = "running"
           /\ old_pc' = old_pc
           /\ regs'[7] = (old_pc + 1) % REG_SIZE
           /\ memory' = memory)]_vars

\* the image of the end-to-end scenario: addi $1,$0,5 at 0 and j 1 at 1
E2EImage == (0 :> 8325 @@ 1 :> 16385)

(* C5: started on addi $1,$0,5 ; j 1 the loop executes exactly those two   *)
(* instructions and halts with PC = 1, register 1 = 5, every other         *)
(* register 0 and the memory as loaded.                                    *)
C5_EndToEnd ==
    image = E2EImage =>
        /\ steps <= 2
        /\ steps < 2 => status = "running" /\ ENABLED Next
        /\ steps = 1 => old_pc = 1
        /\ steps = 2 =>
              /\ status = "halted"
              /\ old_pc = 1
              /\ regs = [i \in 0..7 |-> IF i = 1 THEN 5 ELSE 0]
              /\ memory = image

\* the end-to-end run has halted
C5_Witness == image = E2EImage /\ status = "halted" /\ prev.instr = 16385

(* C6: with a non-zero destination, ADD stores (a+b) mod 65536, SUB stores *)
(* (a-b) mod 65536 and ADDI stores (a + signed immediate) mod 65536, a and *)
(* b being the source registers' values; each sets the next PC to (PC+1)   *)
(* mod 65536.                                                              *)
C6_Wraparound ==
    [][Stepping =>
        LET w == Current
            a == regs[FieldA(w)]
            b == regs[FieldB(w)]
        IN  /\ (FieldSel(w) = 0 /\ FieldOp3(w) = 0 /\ FieldD3(w) # 0) =>
                  /\ regs'[FieldD3(w)] = (a + b) % 65536
                  /\ old_pc' = (old_pc + 1) % 65536
            /\ (FieldSel(w) = 0 /\ FieldOp3(w) = 1 /\ FieldD3(w) # 0) =>
                  /\ regs'[FieldD3(w)] = (a - b) % 65536
                  /\ old_pc' = (old_pc + 1) % 65536
            /\ (FieldSel(w) = 1 /\ FieldB(w) # 0) =>
                  /\ regs'[FieldB(w)] = (a + Signed7(FieldImm7(w))) % 65536
                  /\ old_pc' = (old_pc + 1) % 65536]_vars

\* an ADD whose sum passed 65535 was executed and stored the wrapped sum
C6_Witness ==
    /\ Acted
    /\ FieldSel(prev.instr) = 0 /\ FieldOp3(prev.instr) = 0 /\ FieldD3(prev.instr) # 0
    /\ prev.regs[FieldA(prev.instr)] + prev.regs[FieldB(prev.instr)] >= 65536
    /\ regs[FieldD3(prev.instr)] =
          prev.regs[FieldA(prev.instr)] + prev.regs[FieldB(prev.instr)] - 65536

\* the effective address of a two-register word w under registers r
EA(w, r) == (r[FieldA(w)] + Signed7(FieldImm7(w))) % 8192

(* C7: the memory index LW reads and SW writes is (source register +       *)
(* signed immediate) mod 8192, in 0..8191: LW loads the word there and SW  *)
(* changes the memory there and nowhere else.                              *)
C7_EffectiveAddress ==
    [][Stepping =>
        LET w == Current
        IN  /\ FieldSel(w) \in {4, 5} => EA(w, regs) \in 0..8191
            /\ (FieldSel(w) = 4 /\ FieldB(w) # 0) =>
                  regs'[FieldB(w)] = Word(memory, EA(w, regs))
            /\ FieldSel(w) = 5 =>
                  memory' = Store(memory, EA(w, regs), regs[FieldB(w)])]_vars

\* an SW through register 0 with immediate -1 was executed and wrote 65535 at 8191
C7_Witness ==
    /\ Acted
    /\ FieldSel(prev.instr) = 5
    /\ FieldA(prev.instr) = 0 /\ FieldImm7(prev.instr) = 127
    /\ prev.regs[FieldB(prev.instr)] = 65535
    /\ Word(image, 8191) = Marker
    /\ Word(memory, 8191) = 65535

(* C8: JEQ sets the next PC to (PC + 1 + signed immediate) mod 65536 when  *)
(* its two registers hold equal values and to (PC + 1) mod 65536           *)
(* otherwise, and changes no register and no memory word.                  *)
C8_JeqTarget ==
    [][(Stepping /\ FieldSel(Current) = 6) =>
        LET w == Current
        IN  /\ old_pc' = IF regs[FieldA(w)] = regs[FieldB(w)]
                         THEN (old_pc + 1 + Signed7(FieldImm7(w))) % 65536
                         ELSE (old_pc + 1) % 65536
            /\ regs' = regs
            /\ memory' = memory]_vars

\* a JEQ naming one register twice branched backward from a low PC past 0
C8_Witness ==
    /\ Acted
    /\ FieldSel(prev.instr) = 6
    /\ FieldA(prev.instr) = FieldB(prev.instr)
    /\ prev.pc + 1 + Signed7(FieldImm7(prev.instr)) < 0
    /\ old_pc = prev.pc + 1 + Signed7(FieldImm7(prev.instr)) + 65536

(* C9: a JAL executed at PC p sets register 7 to (p+1) mod 65536 and the   *)
(* next PC to its 13-bit immediate and changes nothing else; a later JR on *)
(* register 7, no instruction in between having written register 7, sets   *)
(* the next PC to (p+1) mod 65536 and changes no register or memory word.  *)
C9_CallReturn ==
    [][Stepping =>
        LET w == Current
        IN  /\ FieldSel(w) = 3 =>
                  /\ regs' = [regs EXCEPT ![7] = (old_pc + 1) % 65536]
                  /\ old_pc' = FieldImm13(w)
                  /\ memory' = memory
                  /\ link' = (old_pc + 1) % 65536
            /\ (FieldSel(w) = 0 /\ FieldOp3(w) = 8 /\ FieldA(w) = 7 /\ link # NoLink) =>
                  /\ old_pc' = link
                  /\ regs' = regs
                  /\ memory' = memory]_vars

\* a JR on register 7 returned to the address a JAL two steps earlier linked
C9_Witness ==
    /\ Acted
    /\ steps >= 3
    /\ FieldSel(prev.instr) = 0 /\ FieldOp3(prev.instr) = 8 /\ FieldA(prev.instr) = 7
    /\ link # NoLink
    /\ old_pc = link

(* C10: for the 7-bit immediate x of every executed word, sign_extend_7(x) *)
(* equals sign_number_converter(x, 7) mod 65536; for x in 0..63 both are   *)
(* x, for x in 64..127 the word is x + 65408 and the signed value x - 128. *)
C10_SignExtendAgree ==
    Acted =>
        LET x == FieldImm7(prev.instr)
        IN  /\ sign_extend_7(x) = sign_number_converter(x, 7) % 65536
            /\ x \in 0..63 =>
                  sign_extend_7(x) = x /\ sign_number_converter(x, 7) = x
            /\ x \in 64..127 =>
                  /\ sign_extend_7(x) = x + 65408
                  /\ sign_number_converter(x, 7) = x - 128

\* an SLTI with immediate 64 compared 64 against the extended word and stored 1
C10_Witness ==
    /\ Acted
    /\ FieldSel(prev.instr) = 7
    /\ FieldImm7(prev.instr) = 64
    /\ FieldB(prev.instr) # 0
    /\ prev.regs[FieldA(prev.instr)] = 64
    /\ regs[FieldB(prev.instr)] = 1


----------------------------------------------------------------------------
(* The loader claims, checked under LoadSpec. *)

\* the line the for loop is about to take
NextLine == LineAt(file, lineno)

\* the line is "ram[a] = 16'b<binary digits>;"
Parses(line) == line.match /\ \A i \in 1..Len(line.instr) : line.instr[i] \in {0, 1}

\* the address and the word a line that parses gives
LineAddr(line) == DigitsValue(line.addr, 10, Len(line.addr))
LineValue(line) == DigitsValue(line.instr, 2, Len(line.instr))

\* C11: the lines are processed in order and the loader fails at the first
\* line that does not parse, at the first line whose address differs from
\* the number of lines accepted so far and at a line in sequence whose
\* address is 8192 or more, and at no other line; the failing step writes
\* nothing, and after a failure nothing happens any more: no later line is
\* written and the run loop executes no instruction.
C11_LoaderFailures ==
    [][/\ status # "failed"
       /\ status = "loading" /\ lineno < file.len =>
            /\ ~Parses(NextLine) =>
                 status' = "failed" /\ error' \in {"parse", "literal"}
            /\ Parses(NextLine) /\ LineAddr(NextLine) # lineno =>
                 status' = "failed" /\ error' = "sequence"
            /\ Parses(NextLine) /\ LineAddr(NextLine) = lineno /\ lineno >= 8192 =>
                 status' = "failed" /\ error' = "capacity"
            /\ Parses(NextLine) /\ LineAddr(NextLine) = lineno /\ lineno < 8192 =>
                 status' = "loading" /\ lineno' = lineno + 1 /\ error' = "none"
       /\ status' = "failed" =>
            memory' = memory /\ lineno' = lineno /\ steps' = 0 /\ prev' = NoPrev
      ]_vars

\* a file of 8193 lines in sequence has failed at its last line for capacity
C11_Witness ==
    /\ status = "failed"
    /\ error = "capacity"
    /\ file.len = 8193
    /\ lineno = 8192
    /\ \A i \in 0..8191 : Word(memory, i) = LineValue(LineAt(file, i))

\* the file has at most 8192 lines, each parses and line i has address i
WellFormedFile ==
    /\ file.len <= 8192
    /\ \A i \in DOMAIN file.lines : Parses(file.lines[i]) /\ LineAddr(file.lines[i]) = i

\* C12: a file of n <= 8192 well-formed lines with the addresses 0..n-1 in
\* order loads without error; when the run loop starts, Memory[i] is the value
\* of line i for i < n and 0 for n <= i <= 8191, the PC is 0 and the 8
\* registers are 0.
C12_LoaderImage ==
    WellFormedFile =>
        /\ status # "failed"
        /\ error = "none"
        /\ status = "loading" => expectedaddr = lineno /\ lineno <= file.len
        /\ status = "running" /\ steps = 0 =>
             /\ old_pc = 0
             /\ DOMAIN regs = 0..7
             /\ \A k \in 0..7 : regs[k] = 0
             /\ DOMAIN memory \subseteq 0..8191
             /\ \A i \in 0..8191 :
                    Word(memory, i) = IF i < file.len THEN LineValue(LineAt(file, i)) ELSE 0

\* the file of 8192 lines is loaded, its last line in the last word
C12_Witness ==
    /\ WellFormedFile
    /\ status = "running"
    /\ steps = 0
    /\ file.len = 8192
    /\ Word(memory, 8191) = J(8191)
    /\ Word(memory, 8190) = 0


----------------------------------------------------------------------------
(* The executor claims of the second part, checked under Spec. *)

\* the three-register opcodes the executor knows
Defined3R == {0, 1, 2, 3, 4, 8}

\* C13: a step on a word with format selector 000 whose opcode is none of
\* 0, 1, 2, 3, 4, 8 leaves every register and every memory word unchanged,
\* sets the next PC to (PC + 1) mod 65536 and raises no error, whatever its
\* three register fields are.
C13_UndefinedNoOp ==
    [][Stepping /\ FieldSel(Current) = 0 /\ FieldOp3(Current) \notin Defined3R =>
        /\ regs' = regs
        /\ memory' = memory
        /\ old_pc' = (old_pc + 1) % 65536
        /\ status' = "running"]_vars

\* opcode 7 was executed with a destination other than $0 and a first
\* operand below the second, and no register moved
C13_Witness ==
    /\ Acted
    /\ FieldSel(prev.instr) = 0
    /\ FieldOp3(prev.instr) = 7
    /\ FieldD3(prev.instr) # 0
    /\ prev.regs[FieldA(prev.instr)] < prev.regs[FieldB(prev.instr)]
    /\ regs = prev.regs
    /\ memory = image
    /\ old_pc = prev.pc + 1
    /\ status = "running"


\* the word writes a register: ADD, SUB, OR, AND, SLT by its third register
\* field, ADDI, LW, SLTI by its second
Writer3R(w) == FieldSel(w) = 0 /\ FieldOp3(w) \in {0, 1, 2, 3, 4}
Writer2R(w) == FieldSel(w) \in {1, 4, 7}

\* C14: a step that executes ADD, SUB, OR, AND, SLT, ADDI, LW or SLTI with
\* destination field 0 leaves every register and every memory word unchanged
\* and sets the next PC to (PC + 1) mod 65536; SW with register field 0 still
\* stores 0 at its effective address, and JEQ with register field 0 still
\* compares with 0 and branches when equal.
C14_ZeroDestination ==
    [][Stepping =>
        LET w == Current
        IN  /\ (Writer3R(w) /\ FieldD3(w) = 0) \/ (Writer2R(w) /\ FieldB(w) = 0) =>
                 /\ regs' = regs
                 /\ memory' = memory
                 /\ old_pc' = (old_pc + 1) % 65536
                 /\ status' = "running"
            /\ FieldSel(w) = 5 /\ FieldB(w) = 0 =>
                 /\ memory' = Store(memory, EA(w, regs), 0)
                 /\ Word(memory', EA(w, regs)) = 0
            /\ FieldSel(w) = 6 /\ FieldB(w) = 0 =>
                 old_pc' = IF regs[FieldA(w)] = 0
                           THEN (old_pc + 1 + Signed7(FieldImm7(w))) % 65536
                           ELSE (old_pc + 1) % 65536]_vars

\* an SW of $0 was executed and put 0 over a word of the image that was not 0
C14_Witness ==
    /\ Acted
    /\ FieldSel(prev.instr) = 5
    /\ FieldB(prev.instr) = 0
    /\ Word(image, EA(prev.instr, prev.regs)) # 0
    /\ Word(memory, EA(prev.instr, prev.regs)) = 0
    /\ regs = prev.regs


\* the unsigned 16-bit value of a register
Unsigned(x) == x % 65536

\* the 7-bit immediate sign-extended to a 16-bit word
Extended16(imm) == IF imm >= 64 THEN imm + 65408 ELSE imm

\* C15: with a destination other than $0, SLT stores 1 when the unsigned
\* value of regSrcA is below the unsigned value of regSrcB and 0 otherwise,
\* and SLTI stores 1 when the unsigned value of regSrc is below the 7-bit
\* immediate sign-extended to a 16-bit word (64..127 compare as
\* 65472..65535) and 0 otherwise; the next PC is (PC + 1) mod 65536.
C15_SetLessThan ==
    [][Stepping =>
        LET w == Current
        IN  /\ FieldSel(w) = 0 /\ FieldOp3(w) = 4 /\ FieldD3(w) # 0 =>
                 /\ regs' = [regs EXCEPT ![FieldD3(w)] =
                                IF Unsigned(regs[FieldA(w)]) < Unsigned(regs[FieldB(w)])
                                THEN 1 ELSE 0]
                 /\ old_pc' = (old_pc + 1) % 65536
            /\ FieldSel(w) = 7 /\ FieldB(w) # 0 =>
                 /\ regs' = [regs EXCEPT ![FieldB(w)] =
                                IF Unsigned(regs[FieldA(w)]) < Extended16(FieldImm7(w))
                                THEN 1 ELSE 0]
                 /\ old_pc' = (old_pc + 1) % 65536]_vars

\* an SLTI of 64 against the immediate 64, which compares as 65472, stored 1
C15_Witness ==
    /\ Acted
    /\ FieldSel(prev.instr) = 7
    /\ FieldB(prev.instr) # 0
    /\ FieldImm7(prev.instr) = 64
    /\ prev.regs[FieldA(prev.instr)] = 64
    /\ regs[FieldB(prev.instr)] = 1
    /\ old_pc = prev.pc + 1


\* the addresses at which memory holds a word other than 0 before or after
\* the step
Touched == DOMAIN memory \cup DOMAIN memory'

\* C16: a step that executes an instruction other than SW leaves every
\* memory word unchanged; a step that executes SW changes at most the word at
\* its effective address, which becomes the value of the register named by
\* regDst, and changes no register.
C16_OnlyStoresWrite ==
    [][Stepping =>
        LET w == Current
        IN  /\ FieldSel(w) # 5 => memory' = memory
            /\ FieldSel(w) = 5 =>
                 /\ Word(memory', EA(w, regs)) = regs[FieldB(w)]
                 /\ \A a \in Touched \ {EA(w, regs)} : Word(memory', a) = Word(memory, a)
                 /\ Touched \subseteq 0..8191
                 /\ regs' = regs]_vars

\* an SW was executed and changed the word at its effective address
C16_Witness ==
    /\ Acted
    /\ FieldSel(prev.instr) = 5
    /\ prev.regs[FieldB(prev.instr)] = 32768
    /\ Word(image, EA(prev.instr, prev.regs)) = 1
    /\ Word(memory, EA(prev.instr, prev.regs)) = 32768
    /\ steps = 3


\* the format routines the selector of word w sends it to
Routines(w) ==
    {k \in {"3R", "0R", "2R"} :
        \/ k = "3R" /\ Selector(w) = 0
        \/ k = "0R" /\ Selector(w) \in {2, 3}
        \/ k = "2R" /\ Selector(w) \in {1, 4, 5, 6, 7}}

\* C17: from PC 0 and zero registers on an image of 16-bit words, a step of
\* the run loop completes without error: the fetched word goes to exactly one
\* of the three routines, the index of every memory access is in 0..8191 and
\* the step yields a next PC; the two-register routine never falls through.
C17_Total ==
    /\ status # "crashed"
    /\ Stepping =>
         LET w   == Current
             new == simulation(old_pc, regs, memory)
         IN  /\ Cardinality(Routines(w)) = 1
             /\ old_pc % 8192 \in 0..8191
             /\ FieldSel(w) \in {4, 5} /\ ~ZeroGuard2R(FieldSel(w), FieldB(w)) =>
                    EffectiveAddress(regs, FieldA(w), FieldImm7(w)) \in 0..8191
             /\ new # None
             /\ new # IndexError
             /\ new.pc \in 0..65535
             /\ DOMAIN new.memory \subseteq 0..8191

\* an LW through $0 with immediate -1 was executed, read the word at 8191
\* and the loop is still running
C17_Witness ==
    /\ Acted
    /\ FieldSel(prev.instr) = 4
    /\ FieldA(prev.instr) = 0 /\ FieldImm7(prev.instr) = 127
    /\ FieldB(prev.instr) # 0
    /\ regs[FieldB(prev.instr)] = Marker
    /\ status = "running"
    /\ old_pc = prev.pc + 1


\* a word that is no jump: not J, JAL, JEQ or JR
NonJump(w) ==
    /\ FieldSel(w) \notin {2, 3, 6}
    /\ ~(FieldSel(w) = 0 /\ FieldOp3(w) = 8)

\* C18: on an image of words in 0..65535, in every reachable state of the run
\* the PC, each of the 8 registers and each of the 8192 memory words is in
\* 0..65535; an instruction that is no jump executed at PC 65535 commits the
\* next PC 0, and a JAL executed at PC 65535 sets register 7 to 0.
C18_WordRange ==
    (\A a \in DOMAIN image : image[a] \in 0..65535) =>
        /\ old_pc \in 0..65535
        /\ DOMAIN regs = 0..7
        /\ \A k \in 0..7 : regs[k] \in 0..65535
        /\ DOMAIN memory \subseteq 0..8191
        /\ \A a \in DOMAIN memory : memory[a] \in 0..65535
        /\ Acted /\ prev.pc = 65535 /\ NonJump(prev.instr) =>
             old_pc = 0 /\ status = "running"
        /\ Acted /\ prev.pc = 65535 /\ FieldSel(prev.instr) = 3 =>
             regs[7] = 0 /\ old_pc = FieldImm13(prev.instr)

\* a JAL was executed at PC 65535 and left 0 in register 7
C18_Witness ==
    /\ Acted
    /\ prev.pc = 65535
    /\ FieldSel(prev.instr) = 3
    /\ regs[7] = 0
    /\ old_pc = 8191
    /\ regs[1] = 65535


\* C19: when an SW has written the value v of a register at the effective
\* address e and a later LW with a destination other than $0 computes the
\* same e with no SW to e in between, the LW leaves v in its destination,
\* whatever base registers and immediates reduce to e modulo 8192.
C19_StoreLoad ==
    [][Stepping =>
        LET w == Current
        IN  (FieldSel(w) = 4 /\ FieldB(w) # 0 /\ EA(w, regs) \in DOMAIN stores) =>
                regs'[FieldB(w)] = stores[EA(w, regs)]]_vars

\* 8199 was stored at address 6 through $0 and immediate 6, and loaded back
\* through $1 = 8199 and immediate -1
C19_Witness ==
    /\ Acted
    /\ Word(image, 1) = SW(0, 1, 6)
    /\ Word(image, 2) = SW(0, 1, 7)
    /\ prev.instr = LW(1, 3, 127)
    /\ prev.regs[1] = 8199
    /\ 6 \in DOMAIN stores
    /\ stores[6] = 8199
    /\ regs[3] = 8199


\* C20: at every step the instruction decoded and executed is the word that
\* Memory[PC mod 8192] holds at that moment: a PC of 8192 or more executes the
\* word at the aliased address, and a word an earlier SW has written is the
\* instruction executed when the PC reaches its address.
C20_FetchCurrent ==
    [][Stepping =>
        LET w   == Word(memory, old_pc % 8192)
            new == Dispatch(FieldSel(w), w, old_pc, regs, memory)
        IN  /\ prev'.instr = w
            /\ prev'.pc = old_pc
            /\ regs' = new.regs
            /\ memory' = new.memory
            /\ old_pc' = IF status' = "halted" THEN old_pc ELSE new.pc
            /\ status' = "halted" => new.pc = old_pc]_vars

\* the program wrote ADDI $3, $0, 7 over the J at address 2, and the ADDI is
\* what was executed at PC 2
C20_Witness ==
    /\ Acted
    /\ Word(image, 2) = J(2)
    /\ prev.pc = 2
    /\ prev.instr = ADDI(0, 3, 7)
    /\ regs[3] = 7
    /\ old_pc = 3
    /\ status = "running"

====
